---- MODULE Spec2Model ----
(***************************************************************************)
(* github-sentinel: the interactive console (main thread, input_listener), *)
(* the command worker thread (task_worker) and the scheduler thread, with  *)
(* the two bounded queues COMMAND_QUEUE and RESULT_QUEUE between them.      *)
(*                                                                         *)
(* A line of console text is modelled by its token list, i.e. by the value *)
(* of line.strip().split().  Result strings are modelled by short tags.    *)
(***************************************************************************)
EXTENDS Integers, Sequences, FiniteSets, TLC

VARIABLES
    cmdQ,          \* COMMAND_QUEUE: FIFO of Command records
    resQ,          \* RESULT_QUEUE: FIFO of result messages
    fgPc,          \* main thread: position in main()/input_listener()
    fgLine,        \* main thread: local variable line (as tokens), NoLine
                   \* between two reads
    fgMsg,         \* main thread: parse-error message being put on RESULT_QUEUE
    fgExc,         \* main thread: exception that escaped input_listener, or "none"
    wPc,           \* worker thread: position in task_worker()
    wCmd,          \* worker thread: local variable cmd
    wResult,       \* worker thread: local variable result
    wCalls,        \* history: the collaborator calls made by the last execute()
    schedPc,       \* scheduler thread: position in start_scheduling()
    jobRunning,    \* scheduler: instances of the cron job running in its executor
    frequency,     \* configuration: check_frequency, "daily" or "weekly"
    notification,  \* configuration: notification.type
    bootTime,      \* history: the time the program was started
    now,           \* wall clock, in hours since a Monday 00:00
    nextRun,       \* scheduler: next fire time of the cron job, NoRun before start()
    startedAt,     \* history: the time scheduler.start() was called, NoRun before
    nRuns,         \* history: invocations of the task function so far
    nFired,        \* history: firings of the cron trigger processed so far
    nSkipped,      \* history: firings skipped because max_instances runs executed
    nFailed,       \* history: runs of the task whose body raised an exception
    nReported,     \* history: task failure messages printed
    runPc,         \* scheduled run in progress: "idle", "start" or "fetch"
    runSubs,       \* scheduled run: local variable subs (a list reference)
    runFetched,    \* history: the subscriptions the run in progress has passed
                   \* to fetch_repo_updates, in order
    runStart,      \* history: the subscription list when the run took subs
    subscriptions, \* SubscriptionManager.subscriptions
    nextId,        \* identity of the next Command object constructed
    nRead,         \* number of lines read from stdin so far
    accepted,      \* history: ids of the commands put on COMMAND_QUEUE, in order
    executed,      \* history: ids of the commands passed to execute(), in order
    pushed,        \* history: ids of the command results put on RESULT_QUEUE, in order
    printed,       \* history: ids of the command results printed by the console
    exitEntered,   \* history: the operator typed an exit line
    eofSeen,       \* history: stdin reached end of file
    fullHit,       \* history: a parsed command met a full COMMAND_QUEUE
    fullShown,     \* history: the "queue full" message was printed
    inFlightAtExit \* history: id of the command the worker was executing when
                   \* a typed exit was enqueued, 0 if none

runVars == << runPc, runSubs, runFetched, runStart >>

schedVars == << schedPc, jobRunning, frequency, notification, bootTime, now, nextRun, startedAt,
                nRuns, nFired, nSkipped, nFailed, nReported, runVars >>

vars == << cmdQ, resQ, fgPc, fgLine, fgMsg, fgExc, wPc, wCmd, wResult, wCalls,
           schedVars, subscriptions, nextId, nRead, accepted, executed, pushed, printed,
           exitEntered, eofSeen, fullHit, fullShown, inFlightAtExit >>

(***************************************************************************)
(* Program constants and bounds                                            *)
(***************************************************************************)
\* Queue(maxsize=10) for both queues
maxsize == 10

\* number of console lines the operator types in one run
MaxLines == 12

\* no fire time / no start time yet
NoRun == -1

\* the latest fire time the scheduler sleeps to in Spec and SpecStore
SleepHorizon == 9

\* the number of hours the clock of SpecSched runs after the program started
MaxHours == 60

\* (variant: the event set is open to a further kind)
valid_events_open == << "commits", "pull_requests", "issues", "releases", "bogus" >>

valid_events == << "commits", "pull_requests", "issues", "releases" >>

(***************************************************************************)
(* queue.Queue as used by the program                                      *)
(***************************************************************************)
\* (variant: the capacity test is off by one)
QueueFullOffByOne(q) == Len(q) > maxsize

\* a queue is full when it holds maxsize items
QueueFull(q) == Len(q) >= maxsize

\* put_nowait: append, or raise queue.Full when the queue is full
PutNowait(q, item) ==
    IF QueueFull(q) THEN [ok |-> FALSE, q |-> q]
                    ELSE [ok |-> TRUE, q |-> Append(q, item)]

\* (variant: the newest item is taken, a LIFO queue)
QueueGetNewest(q) == [item |-> q[Len(q)], q |-> SubSeq(q, 1, Len(q) - 1)]

\* get / get_nowait on a non-empty queue: the oldest item
QueueGet(q) == [item |-> Head(q), q |-> Tail(q)]

\* main.py imports the class queue.Queue under the name Queue; the class has
\* no attribute Full (the exception is queue.Full), so evaluating the handler
\* expression `Queue.Full` raises AttributeError.
QueueClassHasFull == FALSE

(***************************************************************************)
(* Commands                                                                *)
(***************************************************************************)
None == "None"

NoCommand == [type |-> "none", owner |-> None, repo |-> None, events |-> << >>, id |-> 0]

Command(type, owner, repo, events, id) ==
    [type |-> type, owner |-> owner, repo |-> repo, events |-> events, id |-> id]

\* str.lower() on the first token
Lower(tok) ==
    CASE tok = "EXIT"   -> "exit"
      [] tok = "Fetch"  -> "fetch"
      [] tok = "ADD"    -> "add"
      [] tok = "Remove" -> "remove"
      [] tok = "LIST"   -> "list"
      [] tok = "Help"   -> "help"
      [] OTHER          -> tok

\* list.index(x), 1-based
IndexOf(parts, x) ==
    CHOOSE i \in 1..Len(parts) : parts[i] = x /\ \A j \in 1..(i - 1) : parts[j] # x

Contains(parts, x) == \E i \in 1..Len(parts) : parts[i] = x

\* (variant: a remove line needs at least 3 tokens)
ParseInputLineRemoveAtLeast3(parts, id) ==
    IF parts = << >> THEN [cmd |-> NoCommand, err |-> "none"]
    ELSE LET cmd_name == Lower(parts[1]) IN
      CASE cmd_name = "help"  -> [cmd |-> Command("help", None, None, << >>, id), err |-> "none"]
        [] cmd_name = "exit"  -> [cmd |-> Command("exit", None, None, << >>, id), err |-> "none"]
        [] cmd_name = "fetch" -> [cmd |-> Command("fetch", None, None, << >>, id), err |-> "none"]
        [] cmd_name = "list"  -> [cmd |-> Command("list", None, None, << >>, id), err |-> "none"]
        [] cmd_name = "add" ->
             IF Len(parts) < 5 \/ ~Contains(parts, "--events")
             THEN [cmd |-> NoCommand, err |-> "add_format_error"]
             ELSE LET events_idx == IndexOf(parts, "--events") - 1 IN
                  IF events_idx < 3
                  THEN [cmd |-> NoCommand, err |-> "add_missing_args"]
                  ELSE [cmd |-> Command("add", parts[2], parts[3],
                                        SubSeq(parts, events_idx + 2, Len(parts)), id),
                        err |-> "none"]
        [] cmd_name = "remove" ->
             IF Len(parts) < 3
             THEN [cmd |-> NoCommand, err |-> "remove_format_error"]
             ELSE [cmd |-> Command("remove", parts[2], parts[3], << >>, id), err |-> "none"]
        [] OTHER -> [cmd |-> NoCommand, err |-> "unknown_command"]

\* (variant: an empty line is reported as an unknown command)
ParseInputLineEmptyUnknown(parts, id) ==
    IF parts = << >> THEN [cmd |-> NoCommand, err |-> "unknown_command"]
    ELSE LET cmd_name == Lower(parts[1]) IN
      CASE cmd_name = "help"  -> [cmd |-> Command("help", None, None, << >>, id), err |-> "none"]
        [] cmd_name = "exit"  -> [cmd |-> Command("exit", None, None, << >>, id), err |-> "none"]
        [] cmd_name = "fetch" -> [cmd |-> Command("fetch", None, None, << >>, id), err |-> "none"]
        [] cmd_name = "list"  -> [cmd |-> Command("list", None, None, << >>, id), err |-> "none"]
        [] cmd_name = "add" ->
             IF Len(parts) < 5 \/ ~Contains(parts, "--events")
             THEN [cmd |-> NoCommand, err |-> "add_format_error"]
             ELSE LET events_idx == IndexOf(parts, "--events") - 1 IN
                  IF events_idx < 3
                  THEN [cmd |-> NoCommand, err |-> "add_missing_args"]
                  ELSE [cmd |-> Command("add", parts[2], parts[3],
                                        SubSeq(parts, events_idx + 2, Len(parts)), id),
                        err |-> "none"]
        [] cmd_name = "remove" ->
             IF Len(parts) # 3
             THEN [cmd |-> NoCommand, err |-> "remove_format_error"]
             ELSE [cmd |-> Command("remove", parts[2], parts[3], << >>, id), err |-> "none"]
        [] OTHER -> [cmd |-> NoCommand, err |-> "unknown_command"]

\* parse_input_line: the Command built from a line (NoCommand for None) and
\* the message it puts on RESULT_QUEUE ("none" when it puts nothing)
ParseInputLine(parts, id) ==
    IF parts = << >> THEN [cmd |-> NoCommand, err |-> "none"]
    ELSE LET cmd_name == Lower(parts[1]) IN
      CASE cmd_name = "help"  -> [cmd |-> Command("help", None, None, << >>, id), err |-> "none"]
        [] cmd_name = "exit"  -> [cmd |-> Command("exit", None, None, << >>, id), err |-> "none"]
        [] cmd_name = "fetch" -> [cmd |-> Command("fetch", None, None, << >>, id), err |-> "none"]
        [] cmd_name = "list"  -> [cmd |-> Command("list", None, None, << >>, id), err |-> "none"]
        [] cmd_name = "add" ->
             IF Len(parts) < 5 \/ ~Contains(parts, "--events")
             THEN [cmd |-> NoCommand, err |-> "add_format_error"]
             ELSE LET events_idx == IndexOf(parts, "--events") - 1 IN
                  IF events_idx < 3
                  THEN [cmd |-> NoCommand, err |-> "add_missing_args"]
                  ELSE [cmd |-> Command("add", parts[2], parts[3],
                                        SubSeq(parts, events_idx + 2, Len(parts)), id),
                        err |-> "none"]
        [] cmd_name = "remove" ->
             IF Len(parts) # 3
             THEN [cmd |-> NoCommand, err |-> "remove_format_error"]
             ELSE [cmd |-> Command("remove", parts[2], parts[3], << >>, id), err |-> "none"]
        [] OTHER -> [cmd |-> NoCommand, err |-> "unknown_command"]

(***************************************************************************)
(* SubscriptionManager                                                     *)
(***************************************************************************)
InSeq(s, x) == \E i \in 1..Len(s) : s[i] = x

\* get_subscription: index of the first entry with this owner and repo, 0 for None
get_subscription(subs, owner, repo) ==
    IF \E i \in 1..Len(subs) : subs[i].owner = owner /\ subs[i].repo = repo
    THEN CHOOSE i \in 1..Len(subs) :
            /\ subs[i].owner = owner /\ subs[i].repo = repo
            /\ \A j \in 1..(i - 1) : ~(subs[j].owner = owner /\ subs[j].repo = repo)
    ELSE 0

\* list.remove(x): drop the first element equal to x
RemoveFirst(s, x) ==
    LET i == CHOOSE k \in 1..Len(s) : s[k] = x /\ \A j \in 1..(k - 1) : s[j] # x
    IN  SubSeq(s, 1, i - 1) \o SubSeq(s, i + 1, Len(s))

\* (variant: no duplicate check)
add_subscription_nodedup(subs, owner, repo, watch_events, persist_ok) ==
    IF \E i \in 1..Len(watch_events) : ~InSeq(valid_events, watch_events[i])
    THEN [ret |-> FALSE, raised |-> FALSE, subs |-> subs]
    ELSE LET new_sub == [owner |-> owner, repo |-> repo, watch_events |-> watch_events]
         IN  [ret |-> persist_ok, raised |-> ~persist_ok, subs |-> Append(subs, new_sub)]

\* add_subscription: ret is the returned bool, raised is TRUE when
\* update_config raised while writing the file (persist_ok = FALSE)
add_subscription(subs, owner, repo, watch_events, persist_ok) ==
    IF \E i \in 1..Len(watch_events) : ~InSeq(valid_events, watch_events[i])
    THEN [ret |-> FALSE, raised |-> FALSE, subs |-> subs]
    ELSE IF get_subscription(subs, owner, repo) # 0
    THEN [ret |-> FALSE, raised |-> FALSE, subs |-> subs]
    ELSE LET new_sub == [owner |-> owner, repo |-> repo, watch_events |-> watch_events]
         IN  [ret |-> persist_ok, raised |-> ~persist_ok, subs |-> Append(subs, new_sub)]

\* (variant: when the key is absent the oldest entry is removed)
remove_subscription_blind(subs, owner, repo, persist_ok) ==
    LET i == get_subscription(subs, owner, repo) IN
    IF i = 0
    THEN IF subs = << >> THEN [ret |-> FALSE, raised |-> FALSE, subs |-> subs]
         ELSE [ret |-> persist_ok, raised |-> ~persist_ok, subs |-> Tail(subs)]
    ELSE [ret |-> persist_ok, raised |-> ~persist_ok, subs |-> RemoveFirst(subs, subs[i])]

\* remove_subscription
remove_subscription(subs, owner, repo, persist_ok) ==
    LET i == get_subscription(subs, owner, repo) IN
    IF i = 0
    THEN [ret |-> FALSE, raised |-> FALSE, subs |-> subs]
    ELSE [ret |-> persist_ok, raised |-> ~persist_ok, subs |-> RemoveFirst(subs, subs[i])]

\* a reference to a list: the live list of the SubscriptionManager or a list
\* of its own
NoRef == [live |-> FALSE, items |-> << >>]

\* the list a reference designates when the store holds subs
Deref(ref, subs) == IF ref.live THEN subs ELSE ref.items

\* (variant: the list itself is returned, not a copy)
get_all_subscriptions_alias(subs) == [live |-> TRUE, items |-> << >>]

\* get_all_subscriptions: self.subscriptions.copy()
get_all_subscriptions(subs) == [live |-> FALSE, items |-> subs]

(***************************************************************************)
(* CommandHandler.execute                                                  *)
(***************************************************************************)
\* `not x` for an Optional[str] field of a Command: None or the empty string
FalsyStr(x) == x = None \/ x = ""

\* `not x` for the Optional[List[str]] field events: None or the empty list
\* (both are the empty sequence here)
FalsyList(x) == x = << >>

\* the collaborator calls of one execute(): the subscriptions passed to
\* fetch_repo_updates, whether each of these calls returned items, the
\* number of calls of the DataProcessor, and the channels the Notifier
\* delivered on
NoCalls == [source |-> << >>, returned |-> << >>, processor |-> 0, sink |-> << >>]

\* Notifier.send_console_notification: the channels the report goes to
send_console_notification == << "console" >>

\* Notifier.send_notification: the configured channel, and the console
send_notification(notification_type) ==
    CASE notification_type = "console" -> send_console_notification
      [] notification_type = "email" -> << "email" >> \o send_console_notification
      [] notification_type = "webhook" -> << "webhook" >> \o send_console_notification
      [] OTHER -> send_console_notification

\* GitHubAPIClient.fetch_repo_updates: the raw updates of one subscription;
\* events holds the watched kinds for which the API returned items (a
\* request that fails returns no items)
fetch_repo_updates(sub, has_update) ==
    [owner |-> sub.owner, repo |-> sub.repo,
     events |-> IF has_update THEN sub.watch_events ELSE << >>]

\* DataProcessor.batch_process_updates: owner, repo and the kinds with items
batch_process_updates(raw_updates_list) ==
    [i \in 1..Len(raw_updates_list) |->
        [owner |-> raw_updates_list[i].owner, repo |-> raw_updates_list[i].repo,
         events |-> raw_updates_list[i].events]]

\* DataProcessor.filter_empty_updates
filter_empty_updates(processed_updates_list) ==
    SelectSeq(processed_updates_list, LAMBDA u : u.events # << >>)

\* (variant: the report goes through send_notification)
FetchNotifyConfigured(notification_type) == send_notification(notification_type)

\* _fetch_immediate_updates, line 98: the channels of the Fetch report
FetchNotify(notification_type) == send_console_notification

\* the rest of _fetch_immediate_updates, after the check for an empty list.
\* env.updated[i]: subscription i has a non-empty update; env.fail: the
\* collaborator that raises ("none", "source", "processor", "sink")
FetchAll(subs, env, notification_type) ==
    LET raw_updates_list ==
            [i \in 1..Len(subs) |-> fetch_repo_updates(subs[i], env.updated[i])]
        processed_updates == batch_process_updates(raw_updates_list)
        filtered_updates == filter_empty_updates(processed_updates)
        counts == << [n_subs |-> Len(subs), n_updated |-> Len(filtered_updates)] >>
    IN
    IF env.fail = "source"
    THEN [raised |-> TRUE, result |-> "none", detail |-> << >>,
          calls |-> [source |-> << subs[1] >>, returned |-> << >>, processor |-> 0,
                     sink |-> << >>]]
    ELSE IF env.fail = "processor"
    THEN [raised |-> TRUE, result |-> "none", detail |-> << >>,
          calls |-> [source |-> subs, returned |-> env.updated, processor |-> 1,
                     sink |-> << >>]]
    ELSE IF filtered_updates # << >>
    THEN [raised |-> env.fail = "sink",
          result |-> IF env.fail = "sink" THEN "none" ELSE "fetch_updated",
          detail |-> IF env.fail = "sink" THEN << >> ELSE counts,
          calls |-> [source |-> subs, returned |-> env.updated, processor |-> 2,
                     sink |-> FetchNotify(notification_type)]]
    ELSE [raised |-> FALSE, result |-> "fetch_no_updates", detail |-> counts,
          calls |-> [source |-> subs, returned |-> env.updated, processor |-> 2,
                     sink |-> << >>]]

\* (variant: no check for an empty subscription list)
fetch_immediate_updates_nocheck(subs, env, notification_type) ==
    IF subs = << >>
    THEN [raised |-> FALSE, result |-> "fetch_no_updates",
          detail |-> << [n_subs |-> 0, n_updated |-> 0] >>,
          calls |-> [source |-> << >>, returned |-> << >>, processor |-> 2,
                     sink |-> << >>]]
    ELSE FetchAll(subs, env, notification_type)

\* _fetch_immediate_updates
fetch_immediate_updates(subs, env, notification_type) ==
    IF subs = << >>
    THEN [raised |-> FALSE, result |-> "fetch_no_subscriptions", detail |-> << >>,
          calls |-> NoCalls]
    ELSE FetchAll(subs, env, notification_type)

\* (variant: the index printed for an entry starts at 0)
FormatListFromZero(subs) ==
    [i \in 1..Len(subs) |->
        [index |-> i - 1, owner |-> subs[i].owner, repo |-> subs[i].repo,
         events |-> subs[i].watch_events]]

\* the LIST branch, lines 64-68: one entry "{i}. {owner}/{repo}" with its
\* events joined by ", " for each subscription, i counting from 1
FormatList(subs) ==
    [i \in 1..Len(subs) |->
        [index |-> i, owner |-> subs[i].owner, repo |-> subs[i].repo,
         events |-> subs[i].watch_events]]

\* the body of the try block of execute: raised is TRUE when an exception
\* leaves it; result is the returned string (as a tag), detail the values
\* formatted into it, subs the subscription list afterwards
execute_try(command, subs, env, notification_type) ==
    CASE command.type = "add" ->
           IF FalsyStr(command.owner) \/ FalsyStr(command.repo) \/ FalsyList(command.events)
           THEN [raised |-> FALSE, result |-> "add_needs_args", detail |-> << >>,
                 subs |-> subs, calls |-> NoCalls]
           ELSE LET invalid_events ==
                        SelectSeq(command.events, LAMBDA e : ~InSeq(valid_events, e))
                IN
                IF invalid_events # << >>
                THEN [raised |-> FALSE, result |-> "add_invalid_events",
                      detail |-> invalid_events, subs |-> subs, calls |-> NoCalls]
                ELSE LET r == add_subscription(subs, command.owner, command.repo,
                                               command.events, env.persist_ok)
                     IN  [raised |-> r.raised,
                          result |-> IF r.raised THEN "none"
                                     ELSE IF r.ret THEN "add_ok" ELSE "add_failed",
                          detail |-> << >>,
                          subs |-> r.subs, calls |-> NoCalls]
      [] command.type = "remove" ->
           IF FalsyStr(command.owner) \/ FalsyStr(command.repo)
           THEN [raised |-> FALSE, result |-> "remove_needs_args", detail |-> << >>,
                 subs |-> subs, calls |-> NoCalls]
           ELSE LET r == remove_subscription(subs, command.owner, command.repo,
                                             env.persist_ok)
                IN  [raised |-> r.raised,
                     result |-> IF r.raised THEN "none"
                                ELSE IF r.ret THEN "remove_ok" ELSE "remove_failed",
                     detail |-> << >>,
                     subs |-> r.subs, calls |-> NoCalls]
      [] command.type = "list" ->
           IF subs = << >>
           THEN [raised |-> FALSE, result |-> "no_subscriptions", detail |-> << >>,
                 subs |-> subs, calls |-> NoCalls]
           ELSE [raised |-> FALSE, result |-> "list", detail |-> FormatList(subs),
                 subs |-> subs, calls |-> NoCalls]
      [] command.type = "fetch" ->
           LET r == fetch_immediate_updates(subs, env, notification_type) IN
           [raised |-> r.raised, result |-> r.result, detail |-> r.detail,
            subs |-> subs, calls |-> r.calls]
      [] command.type = "help" ->
           [raised |-> FALSE, result |-> "help_text", detail |-> << >>,
            subs |-> subs, calls |-> NoCalls]
      [] command.type = "exit" ->
           [raised |-> FALSE, result |-> "exiting", detail |-> << >>,
            subs |-> subs, calls |-> NoCalls]
      [] OTHER ->
           [raised |-> FALSE, result |-> "unknown_command_type", detail |-> << >>,
            subs |-> subs, calls |-> NoCalls]

\* (variant: no try / except around the body)
execute_unguarded(command, subs, env, notification_type) ==
    execute_try(command, subs, env, notification_type)

\* execute: `except Exception` turns an exception of the body into the
\* string "command failed: ..."
execute(command, subs, env, notification_type) ==
    LET r == execute_try(command, subs, env, notification_type) IN
    IF r.raised
    THEN [r EXCEPT !.raised = FALSE, !.result = "command_failed"]
    ELSE r

\* the collaborators that can raise during a Fetch
FetchFailures == {"none", "source", "processor", "sink"}

\* the environments a command can execute in: a Fetch meets any pattern of
\* updates and any failing collaborator, an Add or Remove a configuration
\* file that can or cannot be written
Envs(command, subs) ==
    IF command.type = "fetch"
    THEN [persist_ok : {TRUE}, fail : FetchFailures,
          updated : [1..Len(subs) -> BOOLEAN]]
    ELSE [persist_ok : BOOLEAN, fail : {"none"},
          updated : {[i \in 1..Len(subs) |-> FALSE]}]

\* a message on RESULT_QUEUE: the result of command id, or a message that
\* belongs to no command (id 0)
Msg(kind, id, text) == [kind |-> kind, id |-> id, text |-> text, detail |-> << >>]

\* the result string of a command: text names the message, detail holds the
\* values formatted into it
ResultMsg(id, r) == [kind |-> "result", id |-> id, text |-> r.result, detail |-> r.detail]

NoMsg == Msg("none", 0, "none")

\* no line has been read in this iteration of input_listener
NoLine == << "<no line>" >>

(***************************************************************************)
(* Initial state: main() has started the worker thread and entered         *)
(* input_listener(); both queues are empty.                                *)
(***************************************************************************)
InitThreads ==
    /\ cmdQ = << >>
    /\ resQ = << >>
    /\ fgPc = "select"
    /\ fgLine = NoLine
    /\ fgMsg = NoMsg
    /\ fgExc = "none"
    /\ wPc = "init"
    /\ wCmd = NoCommand
    /\ wResult = NoMsg
    /\ wCalls = NoCalls
    /\ schedPc = "notstarted"
    /\ jobRunning = 0
    /\ nextRun = NoRun
    /\ startedAt = NoRun
    /\ nRuns = 0
    /\ nFired = 0
    /\ nSkipped = 0
    /\ nFailed = 0
    /\ nReported = 0
    /\ runPc = "idle"
    /\ runSubs = NoRef
    /\ runFetched = << >>
    /\ runStart = << >>
    /\ nextId = 1
    /\ nRead = 0
    /\ accepted = << >>
    /\ executed = << >>
    /\ pushed = << >>
    /\ printed = << >>
    /\ exitEntered = FALSE
    /\ eofSeen = FALSE
    /\ fullHit = FALSE
    /\ fullShown = FALSE
    /\ inFlightAtExit = 0

\* the configuration file holds no subscription (the default configuration)
Init ==
    /\ InitThreads
    /\ subscriptions = << >>
    /\ frequency = "daily"
    /\ notification = "console"
    /\ now = 0
    /\ bootTime = now

\* the main thread has ended (returned from main() or died of an exception)
MainEnded == fgPc \in {"exited", "crashed"}

\* the worker thread has ended
WorkerEnded == wPc \in {"returned", "done", "crashed"}

\* the interpreter exits when the main thread and the non-daemon worker
\* thread have ended; the daemon scheduler thread is killed with it
ProcessExited == MainEnded /\ WorkerEnded

(***************************************************************************)
(* Main thread: input_listener() and the tail of main()                    *)
(***************************************************************************)
\* selector.select() reports stdin readable and readline() returns a line
FgReadLine(parts) ==
    /\ fgPc = "select"
    /\ nRead' = nRead + 1
    /\ fgLine' = parts
    /\ LET p == ParseInputLine(parts, nextId) IN
       /\ exitEntered' = (exitEntered \/ p.cmd.type = "exit")
       /\ IF p.err # "none"
          THEN \* parse_input_line calls RESULT_QUEUE.put(message): a blocking put
               /\ fgPc' = "putErr"
               /\ fgMsg' = Msg("parse_error", 0, p.err)
               /\ UNCHANGED << cmdQ, fgExc, nextId, accepted, fullHit, fullShown,
                               inFlightAtExit >>
          ELSE IF p.cmd = NoCommand
          THEN /\ fgPc' = "drain"
               /\ UNCHANGED << cmdQ, fgMsg, fgExc, nextId, accepted, fullHit, fullShown,
                               inFlightAtExit >>
          ELSE LET r == PutNowait(cmdQ, p.cmd) IN
               /\ nextId' = nextId + 1
               /\ cmdQ' = r.q
               /\ fgMsg' = fgMsg
               /\ IF r.ok
                  THEN /\ accepted' = Append(accepted, p.cmd.id)
                       /\ fgPc' = IF p.cmd.type = "exit" THEN "done" ELSE "drain"
                       /\ inFlightAtExit' = IF p.cmd.type = "exit" /\ wPc = "exec"
                                            THEN wCmd.id ELSE inFlightAtExit
                       /\ UNCHANGED << fgExc, fullHit, fullShown >>
                  ELSE \* queue.Full was raised; the handler is `except Queue.Full`
                       /\ accepted' = accepted
                       /\ inFlightAtExit' = inFlightAtExit
                       /\ fullHit' = TRUE
                       /\ IF QueueClassHasFull
                          THEN /\ fullShown' = TRUE
                               /\ fgPc' = "drain"
                               /\ fgExc' = fgExc
                          ELSE /\ fullShown' = fullShown
                               /\ fgPc' = "crashed"
                               /\ fgExc' = "AttributeError"
    /\ UNCHANGED << resQ, wPc, wCmd, wResult, wCalls, schedVars, subscriptions,
                    executed, pushed, printed, eofSeen >>

\* selector.select(timeout=0.5) returns without input
FgSelectTimeout ==
    /\ fgPc = "select"
    /\ fgPc' = "drain"
    /\ UNCHANGED << cmdQ, resQ, fgMsg, fgExc, wPc, wCmd, wResult, wCalls, schedVars,
                    subscriptions, nextId, nRead, accepted, executed, pushed,
                    printed, exitEntered, eofSeen, fullHit, fullShown,
                    inFlightAtExit, fgLine >>

\* the blocking RESULT_QUEUE.put(message) of parse_input_line completes;
\* it waits as long as the queue is full
FgPutErr ==
    /\ fgPc = "putErr"
    /\ ~QueueFull(resQ)
    /\ resQ' = Append(resQ, fgMsg)
    /\ fgMsg' = NoMsg
    /\ fgPc' = "drain"
    /\ UNCHANGED << cmdQ, fgExc, wPc, wCmd, wResult, wCalls, schedVars, subscriptions,
                    nextId, nRead, accepted, executed, pushed, printed,
                    exitEntered, eofSeen, fullHit, fullShown,
                    inFlightAtExit, fgLine >>

\* one iteration of `while not RESULT_QUEUE.empty()`: get_nowait and print
FgDrainOne ==
    /\ fgPc = "drain"
    /\ resQ # << >>
    /\ LET g == QueueGet(resQ) IN
       /\ resQ' = g.q
       /\ printed' = IF g.item.kind = "result" THEN Append(printed, g.item.id)
                     ELSE printed
    /\ UNCHANGED << cmdQ, fgPc, fgMsg, fgExc, wPc, wCmd, wResult, wCalls, schedVars,
                    subscriptions, nextId, nRead, accepted, executed, pushed,
                    exitEntered, eofSeen, fullHit, fullShown,
                    inFlightAtExit, fgLine >>

\* RESULT_QUEUE.empty() is true: back to select
FgDrainDone ==
    /\ fgPc = "drain"
    /\ resQ = << >>
    /\ fgPc' = "select"
    /\ fgLine' = NoLine
    /\ UNCHANGED << cmdQ, resQ, fgMsg, fgExc, wPc, wCmd, wResult, wCalls, schedVars,
                    subscriptions, nextId, nRead, accepted, executed, pushed,
                    printed, exitEntered, eofSeen, fullHit, fullShown,
                    inFlightAtExit >>

\* readline() returns "" (stdin closed): put_nowait(Command(EXIT)) outside
\* any try block, then return
FgEOF ==
    /\ fgPc = "select"
    /\ eofSeen' = TRUE
    /\ nextId' = nextId + 1
    /\ LET r == PutNowait(cmdQ, Command("exit", None, None, << >>, nextId)) IN
       /\ cmdQ' = r.q
       /\ IF r.ok
          THEN /\ accepted' = Append(accepted, nextId)
               /\ fgPc' = "done"
               /\ fgExc' = fgExc
          ELSE /\ accepted' = accepted
               /\ fgPc' = "crashed"
               /\ fgExc' = "Full"
    /\ UNCHANGED << resQ, fgMsg, wPc, wCmd, wResult, wCalls, schedVars, subscriptions,
                    nRead, executed, pushed, printed, exitEntered, fullHit,
                    fullShown,
                    inFlightAtExit, fgLine >>

\* main(): worker_thread.join(timeout=5) returns (the worker ended or the
\* timeout passed), the farewell is printed and main() returns
MainJoin ==
    /\ fgPc = "done"
    /\ fgPc' = "exited"
    /\ UNCHANGED << cmdQ, resQ, fgMsg, fgExc, wPc, wCmd, wResult, wCalls, schedVars,
                    subscriptions, nextId, nRead, accepted, executed, pushed,
                    printed, exitEntered, eofSeen, fullHit, fullShown,
                    inFlightAtExit, fgLine >>

(***************************************************************************)
(* Worker thread: task_worker()                                            *)
(***************************************************************************)
fgVars == << fgPc, fgLine, fgMsg, fgExc, nextId, nRead, accepted, printed,
             exitEntered, eofSeen, fullHit, fullShown, inFlightAtExit >>

\* the core modules are constructed without an exception
WorkerInit ==
    /\ wPc = "init"
    /\ wPc' = "startsched"
    /\ UNCHANGED << cmdQ, resQ, wCmd, wResult, wCalls, schedVars, subscriptions,
                    executed, pushed >>
    /\ UNCHANGED fgVars

\* a constructor raised: RESULT_QUEUE.put(message) (blocking) and return
WorkerInitFail ==
    /\ wPc = "init"
    /\ ~QueueFull(resQ)
    /\ resQ' = Append(resQ, Msg("init_failed", 0, "init_failed"))
    /\ wPc' = "returned"
    /\ UNCHANGED << cmdQ, wCmd, wResult, wCalls, schedVars, subscriptions, executed, pushed >>
    /\ UNCHANGED fgVars

\* the daemon scheduler thread is created and started: start_scheduling adds
\* the cron job to the (not yet running) scheduler and calls task_func()
WorkerStartScheduler ==
    /\ wPc = "startsched"
    /\ wPc' = "get"
    /\ schedPc' = "immediate"
    /\ nRuns' = nRuns + 1
    /\ runPc' = "start"
    /\ UNCHANGED << runSubs, runFetched, runStart >>
    /\ UNCHANGED << jobRunning, frequency, notification, bootTime, now, nextRun, startedAt, nFired,
                    nSkipped, nFailed, nReported >>
    /\ UNCHANGED << cmdQ, resQ, wCmd, wResult, wCalls, subscriptions, executed, pushed >>
    /\ UNCHANGED fgVars

\* creating or starting the scheduler thread raised: put (blocking), return
WorkerStartSchedulerFail ==
    /\ wPc = "startsched"
    /\ ~QueueFull(resQ)
    /\ resQ' = Append(resQ, Msg("init_failed", 0, "scheduler_start_failed"))
    /\ wPc' = "returned"
    /\ UNCHANGED << cmdQ, wCmd, wResult, wCalls, schedVars, subscriptions, executed, pushed >>
    /\ UNCHANGED fgVars

\* cmd = COMMAND_QUEUE.get(timeout=1) returns a command; while the queue is
\* empty the get raises Empty and the loop continues, which changes nothing
WorkerGet ==
    /\ wPc = "get"
    /\ cmdQ # << >>
    /\ LET g == QueueGet(cmdQ) IN
       /\ wCmd' = g.item
       /\ cmdQ' = g.q
    /\ wPc' = "exec"
    /\ UNCHANGED << resQ, wResult, wCalls, schedVars, subscriptions, executed, pushed >>
    /\ UNCHANGED fgVars

\* result = command_handler.execute(cmd); an exception of execute goes to the
\* `except Exception` handler of the loop
WorkerExecute ==
    /\ wPc = "exec"
    /\ \E env \in Envs(wCmd, subscriptions) :
         LET r == execute(wCmd, subscriptions, env, notification) IN
         /\ subscriptions' = r.subs
         /\ wCalls' = r.calls
         /\ IF r.raised
            THEN wResult' = wResult /\ wPc' = "handler"
            ELSE wResult' = ResultMsg(wCmd.id, r) /\ wPc' = "put"
    /\ executed' = Append(executed, wCmd.id)
    /\ UNCHANGED << cmdQ, resQ, wCmd, schedVars, pushed >>
    /\ UNCHANGED fgVars

\* RESULT_QUEUE.put_nowait(result); on success an exit command sleeps and
\* returns, any other command loops; queue.Full goes to `except Exception`
WorkerPut ==
    /\ wPc = "put"
    /\ LET r == PutNowait(resQ, wResult) IN
       /\ resQ' = r.q
       /\ IF r.ok
          THEN /\ pushed' = Append(pushed, wResult.id)
               /\ IF wCmd.type = "exit"
                  THEN wPc' = "sleep"
                  ELSE wPc' = "get"
          ELSE /\ pushed' = pushed
               /\ wPc' = "handler"
    /\ UNCHANGED << cmdQ, wCmd, wResult, wCalls, schedVars, subscriptions, executed >>
    /\ UNCHANGED fgVars

\* except Exception: RESULT_QUEUE.put_nowait(exception message); on success
\* the loop continues (whatever the command was), on queue.Full the
\* exception leaves task_worker and the thread dies
WorkerHandler ==
    /\ wPc = "handler"
    /\ LET r == PutNowait(resQ, Msg("exception", wCmd.id, "command_exception")) IN
       /\ resQ' = r.q
       /\ IF r.ok
          THEN wPc' = "get"
          ELSE wPc' = "crashed"
    /\ UNCHANGED << cmdQ, wCmd, wResult, wCalls, schedVars, subscriptions, executed, pushed >>
    /\ UNCHANGED fgVars

\* time.sleep(0.5) after an exit command, then return
WorkerExitSleep ==
    /\ wPc = "sleep"
    /\ wPc' = "done"
    /\ UNCHANGED << cmdQ, resQ, wCmd, wResult, wCalls, schedVars, subscriptions,
                    executed, pushed >>
    /\ UNCHANGED fgVars

(***************************************************************************)
(* Scheduler thread: TaskScheduler.start_scheduling()                      *)
(***************************************************************************)
\* add_job(..., hour=9, minute=0, [day_of_week=0])
CronHour == 9
CronWeekday == 0

\* add_job is called without max_instances: one running instance per job
max_instances == 1

\* (variant: the executor accepts a run whatever is executing)
CanSubmitAlways(running) == TRUE

\* the executor accepts a run of the job while fewer than max_instances of
\* its runs are executing
CanSubmit(running) == running < max_instances

\* the cron trigger matches time t (t in hours since a Monday 00:00)
CronMatches(freq, t) ==
    /\ t % 24 = CronHour
    /\ freq = "daily" \/ (t \div 24) % 7 = CronWeekday

\* (variant: the job fires every hour)
NextFireHourly(freq, t) == t

\* the next fire time of the cron trigger at or after time t
NextFire(freq, t) ==
    CHOOSE u \in t..(t + 168) :
        /\ CronMatches(freq, u)
        /\ \A v \in t..(u - 1) : ~CronMatches(freq, v)

\* (variant: the body is not wrapped, a failure propagates to the caller)
scheduled_update_task_uncaught(body_ok) ==
    [raised |-> ~body_ok, reported |-> FALSE]

\* scheduled_update_task: the whole body is inside try / except Exception,
\* so a failure of the body (body_ok = FALSE) is printed and not raised
scheduled_update_task(body_ok) ==
    [raised |-> FALSE, reported |-> ~body_ok]

otherVars == << cmdQ, wPc, wCmd, wResult, wCalls, subscriptions, executed, pushed >>

\* (variant: the failure message of the task is put on RESULT_QUEUE)
task_report_queued(resq, reported) ==
    IF reported /\ ~QueueFull(resq)
    THEN Append(resq, Msg("task_failed", 0, "scheduled_task_failed"))
    ELSE resq

\* scheduled_update_task reports with print(), line 157 included:
\* RESULT_QUEUE after the run is RESULT_QUEUE before it
task_report(resq, reported) == resq

\* (variant: the scheduler goes on dispatching after start() has returned)
DispatchingAfterStop(pc) == pc \in {"waiting", "stopped"}

\* the scheduler dispatches the trigger while start_scheduling is blocked
\* in scheduler.start()
Dispatching(pc) == pc = "waiting"

\* a run of the task function is executing: the immediate call or a job
RunExecuting == schedPc = "immediate" \/ jobRunning > 0

\* subs = subscription_manager.get_all_subscriptions(), lines 145-148
SchedRunSnapshot ==
    /\ runPc = "start"
    /\ RunExecuting
    /\ ~ProcessExited
    /\ runPc' = "fetch"
    /\ runSubs' = get_all_subscriptions(subscriptions)
    /\ runStart' = subscriptions
    /\ runFetched' = << >>
    /\ UNCHANGED << schedPc, jobRunning, frequency, notification, bootTime, now, nextRun,
                    startedAt, nRuns, nFired, nSkipped, nFailed, nReported >>
    /\ UNCHANGED << resQ, otherVars >>
    /\ UNCHANGED fgVars

\* one step of [github_client.fetch_repo_updates(sub) for sub in subs]: the
\* iteration takes the next element of the list that subs refers to
SchedRunFetch ==
    /\ runPc = "fetch"
    /\ RunExecuting
    /\ ~ProcessExited
    /\ LET list == Deref(runSubs, subscriptions)
           i == Len(runFetched) + 1
       IN  /\ i <= Len(list)
           /\ runFetched' = Append(runFetched, list[i])
    /\ UNCHANGED << runPc, runSubs, runStart >>
    /\ UNCHANGED << schedPc, jobRunning, frequency, notification, bootTime, now, nextRun,
                    startedAt, nRuns, nFired, nSkipped, nFailed, nReported >>
    /\ UNCHANGED << resQ, otherVars >>
    /\ UNCHANGED fgVars

\* the run in progress can return: normally (body_ok) once the iteration is
\* over, with an exception caught at line 156 at any point
RunCanEnd(body_ok) ==
    /\ runPc \in {"start", "fetch"}
    /\ body_ok => /\ runPc = "fetch"
                  /\ Len(runFetched) >= Len(Deref(runSubs, subscriptions))

\* the immediate task_func() call returns and scheduler.start() is called:
\* the pending job gets its first fire time and the scheduler blocks; if
\* task_func() raised, the exception leaves start_scheduling before start()
SchedImmediateDone ==
    /\ schedPc = "immediate"
    /\ ~ProcessExited
    /\ \E body_ok \in BOOLEAN :
         LET r == scheduled_update_task(body_ok) IN
         /\ RunCanEnd(body_ok)
         /\ nFailed' = IF body_ok THEN nFailed ELSE nFailed + 1
         /\ nReported' = IF r.reported THEN nReported + 1 ELSE nReported
         /\ resQ' = task_report(resQ, r.reported)
         /\ IF r.raised
            THEN /\ schedPc' = "dead"
                 /\ UNCHANGED << nextRun, startedAt >>
            ELSE /\ schedPc' = "waiting"
                 /\ nextRun' = NextFire(frequency, now)
                 /\ startedAt' = now
    /\ runPc' = "idle"
    /\ runSubs' = NoRef
    /\ runFetched' = << >>
    /\ runStart' = << >>
    /\ UNCHANGED << jobRunning, frequency, notification, bootTime, now, nRuns, nFired, nSkipped >>
    /\ UNCHANGED otherVars
    /\ UNCHANGED fgVars

\* the scheduler wakes with the job due: the run is submitted to the
\* executor unless it is late by more than the misfire grace time (1 second,
\* less than one clock step) or max_instances runs are still executing;
\* the job's next fire time is computed
SchedTrigger ==
    /\ Dispatching(schedPc)
    /\ ~ProcessExited
    /\ now >= nextRun
    /\ nFired' = nFired + 1
    /\ nextRun' = NextFire(frequency, now + 1)
    /\ IF now = nextRun /\ CanSubmit(jobRunning)
       THEN /\ jobRunning' = jobRunning + 1
            /\ nRuns' = nRuns + 1
            /\ runPc' = "start"
            /\ runSubs' = NoRef
            /\ runFetched' = << >>
            /\ runStart' = << >>
       ELSE UNCHANGED << jobRunning, nRuns, runVars >>
    /\ nSkipped' = IF now = nextRun /\ ~CanSubmit(jobRunning)
                   THEN nSkipped + 1 ELSE nSkipped
    /\ UNCHANGED << schedPc, frequency, notification, bootTime, now, startedAt, nFailed, nReported >>
    /\ UNCHANGED << resQ, otherVars >>
    /\ UNCHANGED fgVars

\* a triggered run of scheduled_update_task returns; an exception raised by
\* a job is logged by the executor and the job stays scheduled
SchedJobDone ==
    /\ jobRunning > 0
    /\ ~ProcessExited
    /\ jobRunning' = jobRunning - 1
    /\ \E body_ok \in BOOLEAN :
         LET r == scheduled_update_task(body_ok) IN
         /\ RunCanEnd(body_ok)
         /\ nFailed' = IF body_ok THEN nFailed ELSE nFailed + 1
         /\ nReported' = IF r.reported THEN nReported + 1 ELSE nReported
         /\ resQ' = task_report(resQ, r.reported)
    /\ runPc' = "idle"
    /\ runSubs' = NoRef
    /\ runFetched' = << >>
    /\ runStart' = << >>
    /\ UNCHANGED << schedPc, frequency, notification, bootTime, now, nextRun, startedAt, nRuns, nFired,
                    nSkipped >>
    /\ UNCHANGED otherVars
    /\ UNCHANGED fgVars

\* scheduler.start() ends with KeyboardInterrupt or SystemExit raised in the
\* thread that runs start_scheduling: the except clause prints, the finally
\* clause calls shutdown() (which waits for a run still executing), and
\* start_scheduling returns
SchedStop ==
    /\ schedPc = "waiting"
    /\ ~ProcessExited
    /\ schedPc' = "stopped"
    /\ UNCHANGED << jobRunning, frequency, notification, bootTime, now, nextRun, startedAt, nRuns,
                    nFired, nSkipped, nFailed, nReported, runVars >>
    /\ UNCHANGED << resQ, otherVars >>
    /\ UNCHANGED fgVars

\* the blocked scheduler sleeps until the job's next fire time
SchedSleep ==
    /\ schedPc = "waiting"
    /\ ~ProcessExited
    /\ now < nextRun
    /\ nextRun <= SleepHorizon
    /\ now' = nextRun
    /\ UNCHANGED << schedPc, jobRunning, frequency, notification, bootTime, nextRun, startedAt, nRuns,
                    nFired, nSkipped, nFailed, nReported, runVars >>
    /\ UNCHANGED << resQ, otherVars >>
    /\ UNCHANGED fgVars

\* one hour passes
Tick ==
    /\ now < bootTime + MaxHours
    /\ ~ProcessExited
    /\ now' = now + 1
    /\ UNCHANGED << schedPc, jobRunning, frequency, notification, bootTime, nextRun, startedAt, nRuns,
                    nFired, nSkipped, nFailed, nReported, runVars >>
    /\ UNCHANGED << resQ, otherVars >>
    /\ UNCHANGED fgVars

(***************************************************************************)
(* Specification of the coordination layer                                 *)
(***************************************************************************)
\* the lines the operator types: a command, exit, a malformed line, an empty line
ConsoleLines == { << "fetch" >>, << "EXIT" >>, << "remove", "octocat" >>, << >> }

Foreground ==
    \/ \E parts \in ConsoleLines : nRead < MaxLines /\ FgReadLine(parts)
    \/ FgSelectTimeout
    \/ FgPutErr
    \/ FgDrainOne
    \/ FgDrainDone
    \/ FgEOF
    \/ MainJoin

Worker ==
    \/ WorkerInit
    \/ WorkerInitFail
    \/ WorkerStartScheduler
    \/ WorkerStartSchedulerFail
    \/ WorkerGet
    \/ WorkerExecute
    \/ WorkerPut
    \/ WorkerHandler
    \/ WorkerExitSleep

Scheduler ==
    \/ SchedRunSnapshot
    \/ SchedRunFetch
    \/ SchedImmediateDone
    \/ SchedTrigger
    \/ SchedJobDone

\* the store holds no subscription throughout (no line adds one): a
\* scheduled run takes the empty list and its iteration has no step
SchedulerEmptyStore ==
    \/ SchedRunSnapshot
    \/ SchedImmediateDone
    \/ SchedTrigger
    \/ SchedJobDone

Next == Foreground \/ Worker \/ SchedulerEmptyStore \/ SchedSleep

Spec == Init /\ [][Next]_vars

(***************************************************************************)
(* Specification of the command path over the subscription store: the same *)
(* threads, with add / remove / list lines of every shape and a store that *)
(* is loaded from the configuration file.                                  *)
(***************************************************************************)
\* number of console lines the operator types in one run of SpecStore
MaxStoreLines == 3

\* the subscription lists the configuration file holds at start
InitialStores ==
    { << >>,
      << [owner |-> "o1", repo |-> "r1", watch_events |-> << "commits" >>] >> }

StoreLines ==
    { << "add", "o1", "r1", "--events", "commits", "issues" >>,
      << "ADD", "o1", "r1", "--events", "issues" >>,
      << "add", "o2", "r1", "--events", "commits", "bogus" >>,
      << "add", "octocat" >>,
      << "add", "o1", "r1", "x", "--events" >>,
      << "add", "--events", "o1", "r1", "commits" >>,
      << "add", "o1", "r1", "commits", "issues" >>,
      << "remove", "o1", "r1" >>,
      << "Remove", "o2", "r2" >>,
      << "remove", "o1" >>,
      << "remove", "o1", "r1", "x" >>,
      << "list" >>,
      << "frobnicate" >>,
      << >> }

InitStore ==
    /\ InitThreads
    /\ subscriptions \in InitialStores
    /\ frequency = "daily"
    /\ notification = "console"
    /\ now = 0
    /\ bootTime = now

ForegroundStore ==
    \/ \E parts \in StoreLines : nRead < MaxStoreLines /\ FgReadLine(parts)
    \/ FgSelectTimeout
    \/ FgPutErr
    \/ FgDrainOne
    \/ FgDrainDone
    \/ FgEOF
    \/ MainJoin

\* at most MaxStoreLines results are ever pushed, fewer than maxsize, so
\* put_nowait on RESULT_QUEUE never raises and the except handler of the
\* command loop is never entered
WorkerStore ==
    \/ WorkerInit
    \/ WorkerInitFail
    \/ WorkerStartScheduler
    \/ WorkerStartSchedulerFail
    \/ WorkerGet
    \/ WorkerExecute
    \/ WorkerPut
    \/ WorkerExitSleep

\* the scheduler thread is started and left in its immediate run: its steps
\* change none of the variables of the command path
NextStore == ForegroundStore \/ WorkerStore

SpecStore == InitStore /\ [][NextStore]_vars

(***************************************************************************)
(* Specification of Fetch and List over a store that the operator edits:   *)
(* valid add, remove, list and fetch lines and every notification type.    *)
(***************************************************************************)
\* number of console lines the operator types in one run of SpecFetch
MaxFetchLines == 3

FetchLines ==
    { << "add", "o1", "r1", "--events", "issues", "commits" >>,
      << "add", "o2", "r2", "--events", "releases" >>,
      << "remove", "o1", "r1" >>,
      << "list" >>,
      << "fetch" >> }

\* the values of notification.type in the configuration file
NotificationTypes == {"console", "email", "webhook"}

InitFetch ==
    /\ InitThreads
    /\ subscriptions \in InitialStores
    /\ frequency = "daily"
    /\ notification \in NotificationTypes
    /\ now = 0
    /\ bootTime = now

ForegroundFetch ==
    \/ \E parts \in FetchLines : nRead < MaxFetchLines /\ FgReadLine(parts)
    \/ FgSelectTimeout
    \/ FgDrainOne
    \/ FgDrainDone
    \/ FgEOF
    \/ MainJoin

\* the scheduler thread is started and left in its immediate run
NextFetch == ForegroundFetch \/ WorkerStore

SpecFetch == InitFetch /\ [][NextFetch]_vars

(***************************************************************************)
(* Specification of the scheduled runs against a store that the operator   *)
(* edits: the scheduler makes its immediate run and the first triggered    *)
(* run while the worker executes add, remove and fetch commands.           *)
(***************************************************************************)
\* number of console lines the operator types in one run of SpecRun
MaxRunLines == 3

RunLines ==
    { << "add", "o2", "r2", "--events", "releases" >>,
      << "remove", "o1", "r1" >>,
      << "fetch" >> }

ForegroundRun ==
    \/ \E parts \in RunLines : nRead < MaxRunLines /\ FgReadLine(parts)
    \/ FgSelectTimeout
    \/ FgDrainOne
    \/ FgDrainDone
    \/ FgEOF
    \/ MainJoin

NextRun == ForegroundRun \/ WorkerStore \/ Scheduler \/ SchedSleep

SpecRun == InitStore /\ [][NextRun]_vars

(***************************************************************************)
(* Specification of the scheduler thread: the worker starts it, the clock  *)
(* advances hour by hour for MaxHours hours, an interrupt can stop the     *)
(* scheduler, and the operator types nothing.                              *)
(***************************************************************************)
\* hours (since Monday 00:00) at which the program is started: before, at
\* and after 09:00 on Monday, and on Sunday morning
StartTimes == {0, 9, 10, 150}

InitSched ==
    /\ InitThreads
    /\ subscriptions \in InitialStores \ {<< >>}
    /\ frequency \in {"daily", "weekly"}
    /\ notification = "console"
    /\ now \in StartTimes
    /\ bootTime = now

NextSched ==
    \/ WorkerInit
    \/ WorkerInitFail
    \/ WorkerStartScheduler
    \/ WorkerStartSchedulerFail
    \/ Scheduler
    \/ SchedStop
    \/ Tick

SpecSched == InitSched /\ [][NextSched]_vars

TypeOK ==
    /\ Len(cmdQ) \in 0..(maxsize + 1)
    /\ fgPc \in {"select", "putErr", "drain", "done", "crashed", "exited"}
    /\ wPc \in {"init", "startsched", "get", "exec", "put", "handler", "sleep",
                "done", "crashed", "returned"}
    /\ schedPc \in {"notstarted", "immediate", "waiting", "dead", "stopped"}
    /\ runPc \in {"idle", "start", "fetch"}
    /\ jobRunning \in 0..max_instances
    /\ frequency \in {"daily", "weekly"}
    /\ notification \in NotificationTypes
    /\ now \in 0..(bootTime + MaxHours)
    /\ nextRun \in {NoRun} \cup 0..(bootTime + MaxHours + 168)
    /\ nReported <= nFailed /\ nFailed <= nRuns

(***************************************************************************)
(* Properties                                                              *)
(***************************************************************************)
IsPrefix(s, t) == Len(s) <= Len(t) /\ \A i \in 1..Len(s) : s[i] = t[i]

StrictlyIncreasing(s) == \A i \in 1..Len(s) : \A j \in 1..Len(s) : i < j => s[i] < s[j]

\* an Exit command is waiting on COMMAND_QUEUE
ExitInQueue == \E i \in 1..Len(cmdQ) : cmdQ[i].type = "exit"

\* the worker holds an Exit command taken from COMMAND_QUEUE
ExitTaken == wCmd.type = "exit"

\* C1: in every reachable state COMMAND_QUEUE holds at most 10 commands and
\* RESULT_QUEUE holds at most 10 messages.
C1_QueuesBounded == Len(cmdQ) <= 10 /\ Len(resQ) <= 10

\* C1 witness: a command was refused by a full COMMAND_QUEUE, and later the
\* worker died on a RESULT_QUEUE that holds exactly 10 messages.
C1_Witness == fullHit /\ wPc = "crashed" /\ Len(resQ) = 10

\* C2: when a parsed command meets a full COMMAND_QUEUE, nothing is
\* enqueued, the operator is shown the "queue full" message and the
\* foreground loop keeps running.
C2_QueueFullSurfaced == fullHit => (fullShown /\ fgPc \notin {"crashed"})

\* C3: when the worker has a result and RESULT_QUEUE is full, the worker
\* does not die: from the put and from its exception handler it goes on
\* with its loop.
C3_WorkerSurvivesFullResultQueue ==
    [][(wPc \in {"put", "handler"}) => (wPc' \in {"put", "handler", "get", "sleep"})]_vars

\* C4: no push onto a full queue blocks its producer: the foreground is
\* never waiting in a put on a full RESULT_QUEUE (which only it drains).
C4_NoPushBlocks == ~(fgPc = "putErr" /\ QueueFull(resQ))

\* C5: if exit was entered while the worker was executing an earlier
\* command, then at termination the result of that command has been
\* printed to the operator, and so has every result pushed onto RESULT_QUEUE.
C5_InFlightResultDelivered ==
    (ProcessExited /\ inFlightAtExit # 0) =>
        /\ InSeq(printed, inFlightAtExit)
        /\ \A i \in 1..Len(pushed) : InSeq(printed, pushed[i])

\* C6: every accepted command is executed exactly once: no id is executed
\* twice, and when the worker's command loop has ended every accepted
\* command has been executed.
C6_AcceptedExecutedOnce ==
    /\ \A i \in 1..Len(executed) : \A j \in 1..Len(executed) :
          executed[i] = executed[j] => i = j
    /\ wPc \in {"done", "crashed"} =>
          \A i \in 1..Len(accepted) : InSeq(executed, accepted[i])

\* C7: commands are executed in the order they were enqueued, their results
\* are pushed in that order, and the console prints them in the order they
\* were pushed.
C7_ResultsInOrder ==
    /\ IsPrefix(executed, accepted)
    /\ StrictlyIncreasing(pushed)
    /\ \A i \in 1..Len(pushed) : InSeq(executed, pushed[i])
    /\ IsPrefix(printed, pushed)

\* C7 witness: three results were printed while a fourth is still queued
\* and further commands wait on COMMAND_QUEUE.
C7_Witness == Len(printed) >= 3 /\ Len(pushed) > Len(printed) /\ Len(cmdQ) >= 2

\* C8: once the operator has entered exit, the foreground has ended without
\* an exception and the Exit command is on COMMAND_QUEUE or with the worker.
C8_ExitReachesWorker ==
    exitEntered => (fgExc = "none" /\ (ExitInQueue \/ ExitTaken))

\* C9: once stdin has reached EOF, an Exit command has been placed on
\* COMMAND_QUEUE (or taken by the worker) and the foreground loop has
\* returned without raising.
C9_EofEnqueuesExit ==
    eofSeen => (fgPc \in {"done", "exited"} /\ (ExitInQueue \/ ExitTaken))

\* C10: the worker's command loop ends only after it has executed an Exit
\* command, and the foreground loop ends only after enqueuing Exit or on EOF.
C10_NoFatalPath ==
    /\ wPc \in {"done", "crashed"} => (ExitTaken /\ InSeq(executed, wCmd.id))
    /\ fgPc \in {"done", "exited", "crashed"} =>
          (eofSeen \/ (exitEntered /\ (ExitInQueue \/ ExitTaken)))

(***************************************************************************)
(* Properties of the command path over the store                           *)
(***************************************************************************)
\* the worker's execute step
ExecStep == wPc = "exec" /\ wPc' = "put"

\* the main thread's readline step; the line read is fgLine'
ReadStep == fgPc = "select" /\ nRead' = nRead + 1

KeyPresent(subs, owner, repo) ==
    \E i \in 1..Len(subs) : subs[i].owner = owner /\ subs[i].repo = repo

NoDuplicateKeys(subs) ==
    \A i \in 1..Len(subs) : \A j \in 1..Len(subs) :
        (subs[i].owner = subs[j].owner /\ subs[i].repo = subs[j].repo) => i = j

\* C14: the store never holds two entries with the same (owner, repo), and
\* an Add for a key already present leaves the store unchanged and returns
\* a failure result.
C14_NoDuplicateKeys ==
    /\ [] NoDuplicateKeys(subscriptions)
    /\ [][ (ExecStep /\ wCmd.type = "add"
                     /\ KeyPresent(subscriptions, wCmd.owner, wCmd.repo))
           => (/\ subscriptions' = subscriptions
               /\ wResult'.text \in {"add_failed", "add_invalid_events",
                                     "add_needs_args"}) ]_vars

\* C14 witness: an Add for a key already in the store has just been
\* answered with the failure result.
C14_Witness ==
    /\ wPc = "put"
    /\ wCmd.type = "add"
    /\ wResult.text = "add_failed"
    /\ KeyPresent(subscriptions, wCmd.owner, wCmd.repo)

\* C15: a Remove for a key that is not in the store returns the failure
\* result string and leaves the store unchanged.
C15_RemoveAbsentKey ==
    [][ (ExecStep /\ wCmd.type = "remove"
                  /\ ~KeyPresent(subscriptions, wCmd.owner, wCmd.repo))
        => (/\ subscriptions' = subscriptions
            /\ wResult'.kind = "result"
            /\ wResult'.text = "remove_failed") ]_vars

\* C15 witness: a Remove for an absent key was answered on a non-empty store.
C15_Witness ==
    /\ wPc = "put"
    /\ wCmd.type = "remove"
    /\ wResult.text = "remove_failed"
    /\ subscriptions # << >>

\* C16: a malformed or unrecognized line enqueues nothing, leaves the store
\* unchanged and hands exactly one error message to the result path, which
\* has room for it, so that the foreground loop goes on to later lines.
C16_MalformedLineReported ==
    [][ (ReadStep /\ ParseInputLine(fgLine', 0).err # "none")
        => (/\ cmdQ' = cmdQ
            /\ subscriptions' = subscriptions
            /\ fgPc' = "putErr"
            /\ fgMsg'.kind = "parse_error"
            /\ Len(resQ') < maxsize) ]_vars

\* an add line with an owner, a repo and the marker followed by an event
WellFormedAdd(parts) ==
    \E k \in 4..(Len(parts) - 1) : parts[k] = "--events"

\* C17: an add line becomes a queued Add command only if it has an owner,
\* a repo and the marker followed by at least one event token; every other
\* add line is a parse error and is not queued.
C17_AddLineShape ==
    [][ (ReadStep /\ fgLine' # << >> /\ Lower(fgLine'[1]) = "add"
                  /\ ~WellFormedAdd(fgLine'))
        => (/\ cmdQ' = cmdQ
            /\ fgPc' = "putErr"
            /\ fgMsg'.kind = "parse_error") ]_vars

\* C18: a remove line is queued as Remove{owner, repo} if and only if it
\* has exactly 3 tokens; with any other number of tokens it is a parse
\* error and nothing is queued.
C18_RemoveLineArity ==
    [][ (ReadStep /\ fgLine' # << >> /\ Lower(fgLine'[1]) = "remove")
        => IF Len(fgLine') = 3
           THEN /\ fgPc' # "putErr"
                /\ \/ QueueFull(cmdQ)
                   \/ cmdQ' = Append(cmdQ, Command("remove", fgLine'[2], fgLine'[3],
                                                   << >>, nextId))
           ELSE /\ cmdQ' = cmdQ
                /\ fgPc' = "putErr"
                /\ fgMsg'.kind = "parse_error" ]_vars

\* C18 witness: a 3-token remove line has been read and its Remove command
\* is on COMMAND_QUEUE.
C18_Witness ==
    /\ fgLine = << "remove", "o1", "r1" >>
    /\ \E i \in 1..Len(cmdQ) :
         cmdQ[i].type = "remove" /\ cmdQ[i].owner = "o1" /\ cmdQ[i].repo = "r1"

\* C19: an empty or whitespace-only line puts nothing on COMMAND_QUEUE,
\* nothing on RESULT_QUEUE (and leaves no message pending), and leaves the
\* store unchanged.
C19_EmptyLineNoOp ==
    [][ (ReadStep /\ fgLine' = << >>)
        => (/\ cmdQ' = cmdQ
            /\ resQ' = resQ
            /\ subscriptions' = subscriptions
            /\ fgMsg' = fgMsg
            /\ fgPc' = "drain") ]_vars

\* C19 witness: an empty line has been read while a command waits on
\* COMMAND_QUEUE and a subscription is in the store.
C19_Witness ==
    fgLine = << >> /\ fgPc = "drain" /\ cmdQ # << >> /\ subscriptions # << >>

\* C20: an Add with an event outside the closed set is rejected with a
\* result listing the invalid events and leaves the store unchanged; an Add
\* with valid events and an absent key appends exactly one entry.
C20_AddEventValidation ==
    [][ (ExecStep /\ wCmd.type = "add" /\ wCmd.events # << >>)
        => LET invalid == SelectSeq(wCmd.events,
                                    LAMBDA e : e \notin {"commits", "pull_requests",
                                                         "issues", "releases"})
           IN  IF invalid # << >>
               THEN /\ subscriptions' = subscriptions
                    /\ wResult'.text = "add_invalid_events"
                    /\ wResult'.detail = invalid
               ELSE ~KeyPresent(subscriptions, wCmd.owner, wCmd.repo)
                    => subscriptions' =
                         Append(subscriptions,
                                [owner |-> wCmd.owner, repo |-> wCmd.repo,
                                 watch_events |-> wCmd.events]) ]_vars

\* C20 witness: an Add naming the unknown event "bogus" was rejected after
\* an Add with valid events had been appended.
C20_Witness ==
    /\ wPc = "put"
    /\ wResult.text = "add_invalid_events"
    /\ wResult.detail = << "bogus" >>
    /\ \E i \in 1..Len(subscriptions) :
         subscriptions[i].watch_events = << "commits", "issues" >>

(***************************************************************************)
(* Properties of the scheduler thread                                      *)
(***************************************************************************)
\* runs of the task executing now: the synchronous immediate run and the
\* instances of the cron job in the executor
RunsExecuting == (IF schedPc = "immediate" THEN 1 ELSE 0) + jobRunning

\* the fire times of the cron trigger in the interval a..b
FireTimes(freq, a, b) == { t \in a..b : CronMatches(freq, t) }

\* C11: a failure inside a run of the scheduled task is caught and reported
\* and does not terminate the scheduler: every failed run has printed its
\* failure message, start_scheduling never dies of it, a failed immediate run
\* is followed by scheduler.start(), and once started the job always has a
\* next fire time, whatever the earlier runs did.
C11_TaskFailureContained ==
    /\ [](/\ schedPc # "dead"
          /\ nReported = nFailed
          /\ (schedPc = "waiting" =>
                /\ nextRun # NoRun
                /\ CronMatches(frequency, nextRun)))
    /\ [][(schedPc = "immediate" /\ schedPc' # "immediate") =>
            schedPc' = "waiting"]_vars

\* C11 witness: the immediate run and a triggered run have both failed and a
\* later triggered run is executing.
C11_Witness ==
    /\ nFailed >= 2
    /\ nRuns >= 3
    /\ jobRunning = 1
    /\ schedPc = "waiting"

\* C12: on start the task function is invoked exactly once, synchronously in
\* the scheduler thread, before any trigger is dispatched (no fire time is
\* set and no firing is processed while it runs); every later run is the
\* run of a trigger firing, started at a fire time of the trigger, so with
\* frequency daily there is no further run before the next 09:00.
C12_ImmediateRunThenTriggers ==
    /\ [](/\ (schedPc = "notstarted" => nRuns = 0)
          /\ (schedPc = "immediate" =>
                nRuns = 1 /\ nFired = 0 /\ nextRun = NoRun /\ jobRunning = 0)
          /\ (schedPc = "waiting" =>
                /\ nRuns >= 1
                /\ nRuns <= 1 + nFired
                /\ nRuns - 1 <=
                     Cardinality(FireTimes(frequency, startedAt, now))))
    /\ [][(schedPc = "waiting" /\ nRuns' # nRuns) =>
            /\ nRuns' = nRuns + 1
            /\ nFired' = nFired + 1
            /\ CronMatches(frequency, now)]_vars

\* C12 witness: frequency daily, started on Monday 10:00; the immediate run
\* is the only run so far and the clock stands at Tuesday 08:00, one hour
\* before the first fire time.
C12_Witness ==
    /\ frequency = "daily"
    /\ schedPc = "waiting"
    /\ startedAt = 10
    /\ now = 32
    /\ nextRun = 33
    /\ nRuns = 1
    /\ nFired = 0

\* C13: runs of the scheduled task are mutually exclusive: at most one run
\* (the immediate run or a triggered run) is executing in any state.
C13_RunsMutuallyExclusive == RunsExecuting <= 1

\* C13 witness: a trigger fired while the run of the previous firing was
\* still executing; the firing was skipped and one run is executing.
C13_Witness ==
    /\ nSkipped >= 1
    /\ jobRunning = 1
    /\ RunsExecuting = 1

(***************************************************************************)
(* Properties of CommandHandler.execute                                    *)
(***************************************************************************)
\* the strings execute() returns
ResultStrings ==
    { "add_needs_args", "add_invalid_events", "add_ok", "add_failed",
      "remove_needs_args", "remove_ok", "remove_failed",
      "no_subscriptions", "list",
      "fetch_no_subscriptions", "fetch_updated", "fetch_no_updates",
      "help_text", "exiting", "unknown_command_type", "command_failed" }

\* C21: execute never raises to its caller: whatever the command and
\* whichever collaborator fails, the worker leaves execute() with a result
\* string for that command and goes on to put it on RESULT_QUEUE; it never
\* enters its exception handler from execute().
C21_ExecuteNeverRaises ==
    [][(wPc = "exec" /\ wPc' # "exec") =>
          /\ wPc' = "put"
          /\ wResult'.kind = "result"
          /\ wResult'.id = wCmd.id
          /\ wResult'.text \in ResultStrings]_vars

\* C21 witness: a Fetch during which the update source was called and a
\* collaborator raised has returned the "command failed" string.
C21_Witness ==
    /\ wPc = "put"
    /\ wCmd.type = "fetch"
    /\ wCalls.source # << >>
    /\ wResult.id = wCmd.id
    /\ wResult.text = "command_failed"

\* C22: a Fetch executed on an empty store returns the "no subscriptions"
\* result and calls neither the update source, nor the processor, nor the
\* notification sink.
C22_FetchEmptyStore ==
    [][(wPc = "exec" /\ wPc' # "exec" /\ wCmd.type = "fetch" /\ subscriptions = << >>) =>
          /\ wResult'.text = "fetch_no_subscriptions"
          /\ wResult'.id = wCmd.id
          /\ wCalls'.source = << >>
          /\ wCalls'.processor = 0
          /\ wCalls'.sink = << >>]_vars

\* C22 witness: the worker has executed a Fetch on an empty store.
C22_Witness ==
    /\ wPc = "put"
    /\ wCmd.type = "fetch"
    /\ subscriptions = << >>
    /\ wResult.id = wCmd.id
    /\ wResult.text = "fetch_no_subscriptions"

\* C23: a Fetch delivers through the console channel only, whatever
\* notification type is configured, and it invokes the sink only when some
\* watched repository returned a non-empty update.
C23_FetchConsoleOnly ==
    /\ \A i \in 1..Len(wCalls.sink) : wCalls.sink[i] = "console"
    /\ wCalls.sink # << >> =>
          \E i \in 1..Len(wCalls.returned) :
              wCalls.returned[i] /\ wCalls.source[i].watch_events # << >>

\* C23 witness: with email or webhook configured, a Fetch that found updates
\* has delivered its report on the console.
C23_Witness ==
    /\ notification \in {"email", "webhook"}
    /\ wCmd.type = "fetch"
    /\ wResult.text = "fetch_updated"
    /\ wCalls.sink = << "console" >>

\* the entries of a List result report exactly the list subs
ListReports(entries, subs) ==
    /\ Len(entries) = Len(subs)
    /\ \A i \in 1..Len(subs) :
          /\ entries[i].index = i
          /\ entries[i].owner = subs[i].owner
          /\ entries[i].repo = subs[i].repo
          /\ entries[i].events = subs[i].watch_events

\* the list subs without the entries of this owner and repo
WithoutKey(subs, owner, repo) ==
    SelectSeq(subs, LAMBDA x : ~(x.owner = owner /\ x.repo = repo))

\* C24: a successful Add appends the subscription with the events in the
\* order of the command, a successful Remove takes its entry out and keeps
\* the order of the others, and List reports exactly the stored list, one
\* entry each, numbered from 1 in that order; on an empty store List returns
\* the no-subscriptions message.
C24_ListReportsStore ==
    /\ [][(wPc = "exec" /\ wPc' # "exec" /\ wCmd.type = "list") =>
            IF subscriptions = << >>
            THEN wResult'.text = "no_subscriptions"
            ELSE /\ wResult'.text = "list"
                 /\ ListReports(wResult'.detail, subscriptions)]_vars
    /\ [][(wPc = "exec" /\ wPc' # "exec" /\ wResult'.text = "add_ok") =>
            subscriptions' =
               Append(subscriptions, [owner |-> wCmd.owner, repo |-> wCmd.repo,
                                      watch_events |-> wCmd.events])]_vars
    /\ [][(wPc = "exec" /\ wPc' # "exec" /\ wResult'.text = "remove_ok") =>
            /\ subscriptions' = WithoutKey(subscriptions, wCmd.owner, wCmd.repo)
            /\ Len(subscriptions') = Len(subscriptions) - 1]_vars

\* C24 witness: after "add o1 r1 --events issues commits" and "add o2 r2
\* --events releases" a List has reported the two entries in that order.
C24_Witness ==
    /\ wPc = "put"
    /\ wCmd.type = "list"
    /\ wResult.text = "list"
    /\ Len(wResult.detail) = 2
    /\ wResult.detail[1].index = 1
    /\ wResult.detail[1].owner = "o1"
    /\ wResult.detail[1].events = << "issues", "commits" >>
    /\ wResult.detail[2].index = 2
    /\ wResult.detail[2].owner = "o2"

\* the result strings of Add and Remove that report a failure or an error
FailureStrings ==
    { "add_needs_args", "add_invalid_events", "add_failed",
      "remove_needs_args", "remove_failed", "command_failed" }

\* C27: an Add or Remove whose result string reports a failure or an error
\* leaves the in-memory subscription list as it was before the command.
C27_FailedEditLeavesStore ==
    [][(/\ wPc = "exec" /\ wPc' # "exec"
        /\ wCmd.type \in {"add", "remove"}
        /\ wResult'.text \in FailureStrings) =>
          subscriptions' = subscriptions]_vars

(***************************************************************************)
(* Properties of the scheduled runs                                        *)
(***************************************************************************)
\* C25: the scheduler moves only from not started (Idle) to running (the
\* immediate run, then the blocking start call) to stopped; once the
\* blocking start call has returned the task function is not invoked again
\* and the scheduler stays stopped.
C25_StoppedIsFinal ==
    /\ [][schedPc' # schedPc =>
            << schedPc, schedPc' >> \in { << "notstarted", "immediate" >>,
                                          << "immediate", "waiting" >>,
                                          << "waiting", "stopped" >> }]_vars
    /\ [][schedPc = "stopped" =>
            (schedPc' = "stopped" /\ nRuns' = nRuns /\ nFired' = nFired)]_vars

\* C25 witness: the scheduler was stopped and a fire time of its job has
\* passed since.
C25_Witness ==
    /\ schedPc = "stopped"
    /\ nextRun # NoRun
    /\ now > nextRun

\* C26: a scheduled run fetches the list it took at its start: while it
\* iterates, what it has fetched is a prefix of the subscription list of
\* that moment, and when it returns normally it has fetched exactly that
\* list, whatever the worker added or removed meanwhile; a Fetch command
\* fetches the list the store holds when it executes.
C26_RunsFetchSnapshot ==
    /\ [](runPc = "fetch" => IsPrefix(runFetched, runStart))
    /\ [][(runPc = "fetch" /\ runPc' = "idle" /\ nFailed' = nFailed) =>
            runFetched = runStart]_vars
    /\ [][(/\ wPc = "exec" /\ wPc' # "exec" /\ wCmd.type = "fetch"
           /\ wResult'.text \in {"fetch_updated", "fetch_no_updates"}) =>
            wCalls'.source = subscriptions]_vars

\* C26 witness: a run took a non-empty list, the worker has edited the store
\* since, and the run has fetched the whole list it took.
C26_Witness ==
    /\ runPc = "fetch"
    /\ runStart # << >>
    /\ subscriptions # runStart
    /\ runFetched = runStart

\* a step of a scheduled run or of the scheduler that dispatches it
SchedulerStep ==
    \/ runPc # "idle" /\ runVars' # runVars
    \/ nFailed' # nFailed
    \/ nFired' # nFired
    \/ schedPc # "notstarted" /\ schedPc' # schedPc

\* C28: a scheduled run never changes the subscription list and never pushes
\* to or pops from COMMAND_QUEUE or RESULT_QUEUE; the subscription list
\* changes only in the worker's execute().
C28_ScheduledTaskReadOnly ==
    /\ [][SchedulerStep =>
            /\ subscriptions' = subscriptions
            /\ cmdQ' = cmdQ
            /\ resQ' = resQ]_vars
    /\ [][subscriptions' # subscriptions =>
            (wPc = "exec" /\ wPc' \in {"put", "handler"})]_vars

\* C28 witness: after a run that failed, a later run is fetching from a
\* store the worker has edited, with a result waiting on RESULT_QUEUE.
C28_Witness ==
    /\ nFailed >= 1
    /\ runPc = "fetch"
    /\ runFetched # << >>
    /\ subscriptions # runStart
    /\ resQ # << >>

====
